---- MODULE Spec2Model ----
(***************************************************************************)
(* A model of simplefire's Investment account (simplefire/core.py): the    *)
(* year-indexed ledger `df` and the operations contribute, close_year and  *)
(* withdraw (Spec, SpecSaving); and of TaxEvasionStrategy.start_fire, the  *)
(* loop over the years that drives four such accounts (FireSpec).  Money   *)
(* is modelled with integers; the growth rates are chosen so that every    *)
(* product and the division by 2.0 of close_year are exact, hence the      *)
(* integer arithmetic coincides with the float arithmetic of the source on *)
(* these inputs.                                                           *)
(***************************************************************************)
EXTENDS Integers, Sequences, FiniteSets, TLC

\* ------------------------------------------------------------------ bounds
NumYears == 2          \* length of the horizon `years`
MaxStart == 1          \* largest starting_balance / starting_basis tried
MaxAmount == 2         \* largest amount passed to contribute
MaxWithdraw == 2       \* largest amount passed to withdraw
MaxContribution == 2   \* cap on one year's accumulated contribution
MaxBasis == 1          \* cap on the size of the basis reached by the calls
MaxLimit == 1          \* largest finite contribution_limit tried
NumFireYears == 3      \* length of the horizon of the strategy

Years == 1..NumYears
\* the values of annual_growth / 100.0 tried (annual_growth = 0 and 200)
GrowthRates == {0, 2}

\* ------------------------------------------------------- nullable numbers
\* A pandas cell or attribute is either NaN/None (the empty tuple) or <<v>>.
NaN == << >>
Num(v) == <<v>>
isnull(x) == x = NaN
Val(x) == x[1]

Strategies == {"basis", "gains", "balanced"}
Kinds == {"Investment", "Taxable", "Traditional401k", "TraditionalIRA", "RothIRA"}

VARIABLES
    df,                 \* Investment.df: year -> row of the five columns
    growth_rate,        \* Investment.growth_rate
    contribution_limit, \* Investment.contribution_limit (NaN or a number)
    kind,               \* the class of the account
    result,             \* the last call: its arguments and its outcome
    before,             \* df as it was when the last call was made
    employee_contrib,   \* employee amounts accepted in the open year
    fire,               \* the TaxEvasionStrategy object
    household_df,       \* TaxEvasionStrategy.household_df: year -> row
    loop,               \* start_fire: the position and `retired` of its loop
    tax_df,             \* the bracket table handed to the tax functions
    tax_call            \* the last call of a tax function and its outcome

inv_vars == <<df, growth_rate, contribution_limit, kind, result, before, employee_contrib>>
fire_vars == <<fire, household_df, loop>>
tax_vars == <<tax_df, tax_call>>
vars == <<inv_vars, fire_vars, tax_vars>>

\* ------------------------------------------------------ class attributes
\* The attribute names are the ones the methods READ.  Taxable assigns
\* `capital_gains`, which is not the attribute `captial_gains` read by
\* withdraw, so the lookup of `captial_gains` always finds the base default.
pretax(k) == k \in {"Traditional401k", "TraditionalIRA"}
taxfree(k) == k = "RothIRA"
captial_gains(k) == FALSE

\* ----------------------------------------------------------- the queries
not_closed_index(d) == {y \in DOMAIN d : isnull(d[y].end_balance)}

Min(S) == CHOOSE m \in S : \A x \in S : m <= x

\* faulty variant: the latest open year is taken
year_of_latest(d) ==
    IF not_closed_index(d) = {} THEN NaN
    ELSE Num(CHOOSE m \in not_closed_index(d) : \A x \in not_closed_index(d) : m >= x)

\* Investment.current_year on the ledger d: the minimum of the open years,
\* NaN when there is none.
year_of(d) == IF not_closed_index(d) = {} THEN NaN ELSE Num(Min(not_closed_index(d)))

current_year == year_of(df)

\* Investment.balance on the ledger d (defined when there is an open year)
balance_of(d) == Val(d[Val(year_of(d))].start_balance) + d[Val(year_of(d))].contribution

balance == balance_of(df)

\* ---------------------------------------------------------- the outcomes
NoCall == [op |-> "init", status |-> "ok", amount |-> 0, employee |-> FALSE,
           strategy |-> "", year |-> 0, ret |-> NaN, year_arg |-> 0]

Call(op, status, amount, employee, strategy, year, ret) ==
    [op |-> op, status |-> status, amount |-> amount, employee |-> employee,
     strategy |-> strategy, year |-> year, ret |-> ret, year_arg |-> 0]

\* a call of close_year: `year_arg` is the argument (0 for None), `year` the
\* year it resolved to
CloseCall(status, year_arg, year) ==
    [Call("close_year", status, 0, FALSE, "", year, NaN) EXCEPT !.year_arg = year_arg]

\* ------------------------------------------------------------------ Init
\* Investment.__init__: contribution and basis are 0 in every year, only the
\* first year has a start_balance and the starting basis.
years_df(years, starting_balance, starting_basis) ==
    [y \in years |->
        [basis |-> IF y = 1 THEN starting_basis ELSE 0,
         start_balance |-> IF y = 1 THEN Num(starting_balance) ELSE NaN,
         end_balance |-> NaN,
         contribution |-> 0,
         gains |-> NaN]]

InitDf(starting_balance, starting_basis) ==
    years_df(Years, starting_balance, starting_basis)

Init ==
    /\ \E sbal \in 0..MaxStart, sbas \in 0..MaxStart : df = InitDf(sbal, sbas)
    /\ growth_rate \in GrowthRates
    /\ contribution_limit \in {NaN} \cup {Num(l) : l \in 1..MaxLimit}
    /\ kind \in Kinds
    /\ result = NoCall
    /\ before = df
    /\ employee_contrib = 0
    /\ fire = [taxable |-> << >>, employee_investment |-> << >>,
               traditional_ira |-> << >>, roth_ira |-> << >>,
               income_df |-> << >>, raised |-> "", goal_reached |-> FALSE]
    /\ household_df = << >>
    /\ loop = [year |-> 0, retired |-> FALSE, returned |-> FALSE,
               ran |-> << >>, transitions |-> 0]
    /\ tax_df = << >>
    /\ tax_call = [op |-> "init", amount |-> 0, mid |-> NaN, out |-> NaN,
                   raised |-> "", children_age |-> << >>, credit |-> 0,
                   std |-> 0]

\* ------------------------------------------------------------ contribute
\* `new_contrib > self.contribution_limit` is False when the limit is NaN.
ExceedsLimit(new_contrib, limit) == ~isnull(limit) /\ new_contrib > Val(limit)

\* faulty variant: the limit is enforced on employer contributions too
limit_enforced_always(employee) == TRUE

\* `if employee and ...`: whose contributions the limit is enforced on
limit_enforced(employee) == employee

\* faulty variant: the contribution is written before the limit is tested
contribute_raise_df_partial(d, year, new_contrib) ==
    [d EXCEPT ![year].contribution = new_contrib]

\* the ledger when contribute raises: the raise precedes every write
contribute_raise_df(d, year, new_contrib) == d

\* faulty variant: the basis is assigned, not increased
contribute_basis_assigned(basis, amount, employee) ==
    IF employee THEN amount ELSE basis

\* `if employee: self.df.loc[year, "basis"] += amount`
contribute_basis(basis, amount, employee) ==
    IF employee THEN basis + amount ELSE basis

Contribute(amount, employee) ==
    IF isnull(current_year)
    THEN \* df.loc[nan, "contribution"] raises
         /\ before' = df
         /\ result' = Call("contribute", "KeyError", amount, employee, "", 0, NaN)
         /\ UNCHANGED <<df, growth_rate, contribution_limit, kind, employee_contrib>>
    ELSE LET year == Val(current_year)
             new_contrib == df[year].contribution + amount
         IN  IF limit_enforced(employee) /\ ExceedsLimit(new_contrib, contribution_limit)
             THEN /\ before' = df
                  /\ result' = Call("contribute", "ContributionLimitsExceeded",
                                    amount, employee, "", year, NaN)
                  /\ df' = contribute_raise_df(df, year, new_contrib)
                  /\ UNCHANGED <<growth_rate, contribution_limit, kind,
                                 employee_contrib>>
             ELSE /\ new_contrib <= MaxContribution
                  /\ employee => /\ df[year].basis + amount <= MaxBasis
                                 /\ employee_contrib + amount <= MaxBasis
                  /\ df' = [df EXCEPT ![year].contribution = new_contrib,
                                      ![year].basis = contribute_basis(@, amount, employee)]
                  /\ employee_contrib' = IF employee THEN employee_contrib + amount
                                         ELSE employee_contrib
                  /\ before' = df
                  /\ result' = Call("contribute", "ok", amount, employee, "", year, NaN)
                  /\ UNCHANGED <<growth_rate, contribution_limit, kind>>

\* ------------------------------------------------------------ close_year
\* faulty variant: contributions earn the whole year's growth
year_gains_full(start_balance, contributions) ==
    start_balance * growth_rate + contributions * growth_rate

\* balance_gain + contribution_gain, contributions made at mid-year
year_gains(start_balance, contributions) ==
    LET balance_gain == start_balance * growth_rate
        contribution_gain == (contributions * growth_rate) \div 2
    IN  contribution_gain + balance_gain

\* faulty variant: the basis is not carried into next_year
set_next_year_no_basis(d, year, ending_balance) ==
    IF year + 1 \in DOMAIN d
    THEN [d EXCEPT ![year + 1].start_balance = Num(ending_balance)]
    ELSE d

\* "set next years stats": the start_balance and the basis of next_year
set_next_year(d, year, ending_balance) ==
    LET next_year == year + 1
    IN  IF next_year \in DOMAIN d
        THEN [d EXCEPT ![next_year].start_balance = Num(ending_balance),
                       ![next_year].basis = d[year].basis]
        ELSE d

\* faulty variant: a start_balance not yet determined counts as 0
close_start_filled(d, year) ==
    IF isnull(d[year].start_balance) THEN Num(0) ELSE d[year].start_balance

\* `start_balance = self.df.loc[year, "start_balance"]`, tested with pd.isnull
close_start(d, year) == d[year].start_balance

\* `year or self.current_year`: the argument 0 stands for None (and for 0).
CloseYear(year_arg) ==
    LET yr == IF year_arg # 0 THEN Num(year_arg) ELSE current_year
    IN  IF isnull(yr) \/ Val(yr) \notin Years
        THEN \* df.loc[year, ...] raises for a year outside the index
             /\ before' = df
             /\ result' = CloseCall("KeyError", year_arg, year_arg)
             /\ UNCHANGED <<df, growth_rate, contribution_limit, kind, employee_contrib>>
        ELSE LET year == Val(yr)
                 start_balance == close_start(df, year)
                 contributions == df[year].contribution
             IN  IF isnull(start_balance)
                 THEN /\ before' = df
                      /\ result' = CloseCall("BalanceError", year_arg, year)
                      /\ UNCHANGED <<df, growth_rate, contribution_limit, kind,
                                     employee_contrib>>
                 ELSE LET gains == year_gains(Val(start_balance), contributions)
                          ending_balance == Val(start_balance) + gains + contributions
                          closed == [df EXCEPT ![year].end_balance = Num(ending_balance),
                                               ![year].gains = Num(gains)]
                      IN  /\ df' = set_next_year(closed, year, ending_balance)
                          /\ employee_contrib' =
                                IF yr = current_year THEN 0 ELSE employee_contrib
                          /\ before' = df
                          /\ result' = CloseCall("ok", year_arg, year)
                          /\ UNCHANGED <<growth_rate, contribution_limit, kind>>

\* -------------------------------------------------------------- withdraw
\* faulty variant: the whole amount is taxed once the basis is used up
_basis_all_taxed(basis, amount) ==
    LET new == basis - amount
    IN  IF new < 0 THEN <<0, amount>> ELSE <<new, 0>>

\* _calc_new_basis._basis: <<new basis, tax>>
_basis(basis, amount) ==
    LET new == basis - amount
    IN  IF new < 0 THEN <<0, -new>> ELSE <<new, 0>>

\* _calc_new_basis._gains: <<new basis, tax>>
_gains(start_balance, contribution, basis, amount) ==
    LET gains == (start_balance + contribution) - basis
    IN  IF gains > amount
        THEN <<basis, amount>>
        ELSE <<basis - (amount - gains), gains>>

\* Investment._calc_new_basis: <<new basis, tax>>, or NaN where the strategy
\* raises NotImplementedError.  `contribution` is read from the column the
\* source reads it from.
new_basis_of(d, amount, strategy) ==
    LET year == Val(year_of(d))
        start_balance == Val(d[year].start_balance)
        basis == d[year].basis
        contribution == d[year].basis
    IN  CASE strategy = "balanced" -> NaN
          [] strategy = "basis" -> _basis(basis, amount)
          [] strategy = "gains" -> _gains(start_balance, contribution, basis, amount)

_calc_new_basis(amount, strategy) == new_basis_of(df, amount, strategy)

\* faulty variant: the pre-tax rule is tested first and the tax-free rule lost
account_tax_pretax_only(k, amount, strategy_tax) ==
    IF pretax(k) THEN amount ELSE strategy_tax

\* "modify tax based on account type"
account_tax(k, amount, strategy_tax) ==
    IF taxfree(k) THEN 0
    ELSE IF pretax(k) THEN amount
    ELSE strategy_tax

\* `tax_type = 'capital_gains' if self.captial_gains else 'income'`
account_tax_type(k) == IF captial_gains(k) THEN "capital_gains" ELSE "income"

Withdrawal(amount, tax, tax_type) == [amount |-> amount, tax |-> tax, tax_type |-> tax_type]

\* faulty variant: the year's contribution is left out of the funds
insufficient_funds_start_only(contrib, start_balance, amount) ==
    (start_balance - amount) < 0

\* `funds = contrib + balance; if (funds - amount) < 0`
insufficient_funds(contrib, start_balance, amount) ==
    LET funds == contrib + start_balance
    IN  (funds - amount) < 0

\* faulty variant: `= -amount` instead of `-= amount`
withdrawn_contribution_assigned(contrib, amount) == -amount

\* `self.df.loc[year, "contribution"] -= amount`
withdrawn_contribution(contrib, amount) == contrib - amount

Withdraw(amount, strategy) ==
    IF isnull(current_year)
    THEN /\ before' = df
         /\ result' = Call("withdraw", "KeyError", amount, FALSE, strategy, 0, NaN)
         /\ UNCHANGED <<df, growth_rate, contribution_limit, kind, employee_contrib>>
    ELSE LET year == Val(current_year)
             contrib == df[year].contribution
         IN  IF insufficient_funds(contrib, Val(df[year].start_balance), amount)
             THEN /\ before' = df
                  /\ result' = Call("withdraw", "BalanceError", amount, FALSE,
                                    strategy, year, NaN)
                  /\ UNCHANGED <<df, growth_rate, contribution_limit, kind,
                                 employee_contrib>>
             ELSE LET nb == _calc_new_basis(amount, strategy)
                  IN  IF isnull(nb)
                      THEN /\ before' = df
                           /\ result' = Call("withdraw", "NotImplementedError", amount,
                                             FALSE, strategy, year, NaN)
                           /\ UNCHANGED <<df, growth_rate, contribution_limit, kind,
                                          employee_contrib>>
                      ELSE LET new_basis == nb[1]
                               tax == account_tax(kind, amount, nb[2])
                               tax_type == account_tax_type(kind)
                           IN  /\ new_basis >= -MaxBasis
                               /\ df' = [df EXCEPT
                                           ![year].contribution =
                                               withdrawn_contribution(@, amount),
                                           ![year].basis = new_basis]
                               /\ before' = df
                               /\ result' = Call("withdraw", "ok", amount, FALSE, strategy,
                                                 year, Num(Withdrawal(amount, tax, tax_type)))
                               /\ UNCHANGED <<growth_rate, contribution_limit, kind,
                                              employee_contrib>>

\* ------------------------------------------------------------------ Next
DoContribute ==
    /\ \E amount \in 0..MaxAmount, employee \in BOOLEAN : Contribute(amount, employee)
    /\ UNCHANGED <<fire_vars, tax_vars>>
DoCloseYear ==
    /\ \E year_arg \in 0..(NumYears + 1) : CloseYear(year_arg)
    /\ UNCHANGED <<fire_vars, tax_vars>>
DoWithdraw ==
    /\ \E amount \in 0..MaxWithdraw, strategy \in Strategies : Withdraw(amount, strategy)
    /\ UNCHANGED <<fire_vars, tax_vars>>

Next == DoContribute \/ DoCloseYear \/ DoWithdraw

Spec == Init /\ [][Next]_vars

\* An account created with 0 <= starting_basis <= starting_balance.
InitFunded == Init /\ df[1].basis <= Val(df[1].start_balance)

SpecFunded == InitFunded /\ [][Next]_vars

\* An account that is only saved into: contribute and close_year, no withdraw.
NextSaving == DoContribute \/ DoCloseYear

SpecSaving == Init /\ [][NextSaving]_vars

\* ------------------------------------------- the operations on a ledger
\* contribute, close_year and withdraw as functions of the ledger d of an
\* account: the ledger they leave and the exception they raise ("" for none).
inv_contribute(d, limit, amount, employee) ==
    IF isnull(year_of(d))
    THEN [d |-> d, err |-> "KeyError"]
    ELSE LET year == Val(year_of(d))
             new_contrib == d[year].contribution + amount
         IN  IF limit_enforced(employee) /\ ExceedsLimit(new_contrib, limit)
             THEN [d |-> contribute_raise_df(d, year, new_contrib),
                   err |-> "ContributionLimitsExceeded"]
             ELSE [d |-> [d EXCEPT ![year].contribution = new_contrib,
                                   ![year].basis = contribute_basis(@, amount, employee)],
                   err |-> ""]

inv_close_year(d, year) ==
    IF year \notin DOMAIN d
    THEN [d |-> d, err |-> "KeyError"]
    ELSE LET start_balance == close_start(d, year)
             contributions == d[year].contribution
         IN  IF isnull(start_balance)
             THEN [d |-> d, err |-> "BalanceError"]
             ELSE LET gains == year_gains(Val(start_balance), contributions)
                      ending_balance == Val(start_balance) + gains + contributions
                      closed_df == [d EXCEPT ![year].end_balance = Num(ending_balance),
                                             ![year].gains = Num(gains)]
                  IN  [d |-> set_next_year(closed_df, year, ending_balance), err |-> ""]

inv_withdraw(d, k, amount, strategy) ==
    IF isnull(year_of(d))
    THEN [d |-> d, err |-> "KeyError", ret |-> NaN]
    ELSE LET year == Val(year_of(d))
             contrib == d[year].contribution
         IN  IF insufficient_funds(contrib, Val(d[year].start_balance), amount)
             THEN [d |-> d, err |-> "BalanceError", ret |-> NaN]
             ELSE LET nb == new_basis_of(d, amount, strategy)
                  IN  IF isnull(nb)
                      THEN [d |-> d, err |-> "NotImplementedError", ret |-> NaN]
                      ELSE [d |-> [d EXCEPT ![year].contribution =
                                                withdrawn_contribution(@, amount),
                                            ![year].basis = nb[1]],
                            err |-> "",
                            ret |-> Num(Withdrawal(amount, account_tax(k, amount, nb[2]),
                                                   account_tax_type(k)))]

\* Investment.gains on the ledger d (defined when there is an open year)
gains_of(d) == Val(d[Val(year_of(d))].start_balance) - d[Val(year_of(d))].basis

\* ------------------------------------------------- TaxEvasionStrategy
\* The strategy object `fire`: its four accounts (ledgers over FireYears),
\* its income table, the exception that ended start_fire ("" for none) and
\* goal_reached.  All four accounts grow at growth_rate: __post_init__
\* builds them with the same default annual_growth.
FireYears == 1..NumFireYears

Accounts == <<"taxable", "employee_investment", "traditional_ira", "roth_ira">>

\* the class of each account built by __post_init__
account_kind(name) ==
    CASE name = "taxable" -> "Taxable"
      [] name = "employee_investment" -> "Traditional401k"
      [] name = "traditional_ira" -> "TraditionalIRA"
      [] name = "roth_ira" -> "RothIRA"

\* the per-year inputs: the columns of FamilyIncome.get_df() and of
\* Household.get_df(), here the same in every year of the horizon
Incomes == {0, 4, 6}
Matches == {0, 1}
EmployLimits == {1, 4}
Spendings == {0, 1, 5}
TaxFreeIncomes == {3, 5}
IraLimits == {1}
TaxFreeGains == {0, 2}

min2(a, b) == IF a <= b THEN a ELSE b

\* one statement of a year's procedure on the strategy st: skipped when an
\* earlier statement has raised
st_contribute(st, name, amount, employee) ==
    IF st.raised # "" THEN st
    ELSE LET r == inv_contribute(st[name], NaN, amount, employee)
         IN  [st EXCEPT ![name] = r.d, !.raised = r.err]

st_withdraw(st, name, amount, strategy) ==
    IF st.raised # "" THEN st
    ELSE LET r == inv_withdraw(st[name], account_kind(name), amount, strategy)
         IN  [st EXCEPT ![name] = r.d, !.raised = r.err]

st_assert(st, cond) ==
    IF st.raised # "" THEN st
    ELSE IF cond THEN st ELSE [st EXCEPT !.raised = "AssertionError"]

\* `assert year == inv.current_year; inv.close_year(year)` for one account
st_close(st, name, year) ==
    IF st.raised # "" THEN st
    ELSE LET a == st_assert(st, year_of(st[name]) = Num(year))
         IN  IF a.raised # "" THEN a
             ELSE LET r == inv_close_year(a[name], year)
                  IN  [a EXCEPT ![name] = r.d, !.raised = r.err]

\* A value that later statements read more than once is first bound, as
\* the only member of a set, so that it is computed once.
RECURSIVE close_from(_, _, _)
close_from(st, i, year) ==
    IF i > Len(Accounts) THEN st
    ELSE CHOOSE out \in {close_from(s, i + 1, year) :
                            s \in {st_close(st, Accounts[i], year)}} : TRUE

_close_years(st, year) == close_from(st, 1, year)

\* a read of inv.balance or inv.gains raises KeyError without an open year
st_open(st, name) ==
    IF st.raised # "" THEN st
    ELSE IF isnull(year_of(st[name])) THEN [st EXCEPT !.raised = "KeyError"]
    ELSE st

RECURSIVE open_from(_, _)
open_from(st, i) ==
    IF i > Len(Accounts) THEN st
    ELSE CHOOSE out \in {open_from(s, i + 1) : s \in {st_open(st, Accounts[i])}} : TRUE

RECURSIVE passive_from(_, _)
passive_from(st, i) ==
    IF i > Len(Accounts) THEN 0
    ELSE balance_of(st[Accounts[i]]) * growth_rate + passive_from(st, i + 1)

\* faulty variant: the goal is the expenses, not retire_goal times them
goal_met_plain(passive, spending) == passive > spending

\* `passive > (spending * self.retire_goal)` with retire_goal = 1.2
goal_met(passive, spending) == 5 * passive > 6 * spending

\* faulty variant: without an open year the answer is False and nothing is
\* raised
_can_retire_guarded(st, spending) ==
    IF open_from(st, 1).raised # "" THEN [st |-> st, can_retire |-> FALSE]
    ELSE [st |-> st, can_retire |-> goal_met(passive_from(st, 1), spending)]

\* _can_retire: the strategy after the reads of inv.balance, and the answer
_can_retire(st, spending) ==
    CHOOSE out \in {[st |-> o,
                     can_retire |-> o.raised = ""
                                    /\ goal_met(passive_from(o, 1), spending)] :
                        o \in {open_from(st, 1)}} : TRUE

\* `self.income_df.loc[year+1:, ['match', 'required', 'income']] = 0.0`
_zero_income(st, year) ==
    IF st.raised # "" THEN st
    ELSE [st EXCEPT !.income_df =
              [y \in DOMAIN @ |->
                  IF y >= year + 1
                  THEN [@[y] EXCEPT !.match = 0, !.required = 0, !.income = 0]
                  ELSE @[y]]]

_roll_over_traditional(st) ==
    CHOOSE out \in
        {st_contribute(w, "traditional_ira", bal, FALSE) :
            <<bal, w>> \in
                UNION {{<<b, st_withdraw(o, "employee_investment", b, "gains")>> :
                           b \in {IF o.raised # "" THEN 0
                                  ELSE balance_of(o.employee_investment)}} :
                          o \in {st_open(st, "employee_investment")}}} : TRUE

\* what loop.ran records of one pass: the year, the procedure that was run,
\* the answer of _do_working_year (FALSE for None), the statement that
\* raised ("" for none) and the harvest step
Pass(year, proc, can_retire) ==
    [year |-> year, proc |-> proc, can_retire |-> can_retire, at |-> "",
     harvest |-> [done |-> FALSE, amount |-> 0, basis_before |-> 0,
                  balance_before |-> 0, basis_after |-> 0, balance_after |-> 0],
     ladder |-> [done |-> FALSE, amount |-> 0, traditional_before |-> 0,
                 traditional_after |-> 0, roth_before |-> 0, roth_after |-> 0],
     amounts |-> {}]

\* what a retired year records of its "roth rollover": the strategy before
\* the withdraw from the traditional IRA (b) and after the contribute to the
\* Roth IRA (a)
Ladder(b, a, amount) ==
    IF a.raised # "" \/ isnull(year_of(b.roth_ira))
    THEN Pass(0, "", FALSE).ladder
    ELSE [done |-> TRUE, amount |-> amount,
          traditional_before |-> balance_of(b.traditional_ira),
          traditional_after |-> balance_of(a.traditional_ira),
          roth_before |-> balance_of(b.roth_ira),
          roth_after |-> balance_of(a.roth_ira)]

\* the amounts a pass handed to contribute and withdraw: of the calls
\* <<name, amount, strategy before the call>>, those that were reached
Issued(calls) ==
    {<<calls[i][1], calls[i][2]>> : i \in {j \in DOMAIN calls : calls[j][3].raised = ""}}

\* faulty variant: the whole traditional IRA is moved
roll_over_amount_of_balance(tax_free_income, traditional_balance) ==
    traditional_balance

\* `roll_over_amount = min([tax_free_income, self.traditional_ira.balance])`
roll_over_amount_of(tax_free_income, traditional_balance) ==
    min2(tax_free_income, traditional_balance)

\* what a pass records of its capital-gains harvest (`harvest_amount` /
\* `taxable_amount` withdrawn from the taxable account and contributed
\* back): the account before the withdraw (b) and after the contribute (a);
\* done is FALSE when the pass raised before the end of the step
Harvest(b, a, amount) ==
    IF a.raised # ""
    THEN [done |-> FALSE, amount |-> 0, basis_before |-> 0, balance_before |-> 0,
          basis_after |-> 0, balance_after |-> 0]
    ELSE [done |-> TRUE, amount |-> amount,
          basis_before |-> b.taxable[Val(year_of(b.taxable))].basis,
          balance_before |-> balance_of(b.taxable),
          basis_after |-> a.taxable[Val(year_of(a.taxable))].basis,
          balance_after |-> balance_of(a.taxable)]

\* the statement of a year's procedure that raised: the first of the
\* labelled strategies, in program order, that holds an exception
RECURSIVE raised_at(_, _)
raised_at(labelled, i) ==
    IF i > Len(labelled) THEN ""
    ELSE IF labelled[i][2].raised # "" THEN labelled[i][1]
    ELSE raised_at(labelled, i + 1)

\* faulty variant: the IRA limit is left out
roth_contribution_unlimited(remaining, ira_limit) == remaining

\* "contribute as much as possible to roth IRA"
roth_contribution(remaining, ira_limit) == min2(remaining, ira_limit)

\* faulty variant: the flag takes the answer of every year's procedure, and
\* the retired-year procedure answers None
next_retired_reassigned(retired, answer) == answer

\* `if not retired: retired = self._do_working_year(year)`: the flag is
\* assigned only from a working year
next_retired(retired, answer) == IF retired THEN retired ELSE answer

\* the working-year procedure on the strategy `fire`: the strategy it
\* leaves, and the pass of the loop made with what it returns
_do_working_year(year) ==
    LET income_ser == fire.income_df[year]
        household_ser == household_df[year]
        match == income_ser.match
        match_requires == income_ser.required
        balance1 == income_ser.income - income_ser.required
        employ_limit == income_ser.contribution_limit - income_ser.required
        need_to_reduce == balance1 - household_ser.tax_free_income
        additional_emp_contrib == min2(need_to_reduce, employ_limit)
        balance2 == balance1 - additional_emp_contrib - household_ser.spending
        roth_contrib == roth_contribution(balance2, household_ser.ira_limit)
        balance3 == balance2 - roth_contrib
    IN  \E s1 \in {st_contribute(fire, "employee_investment", match, TRUE)} :
        \E s2 \in {st_contribute(s1, "employee_investment", match_requires, FALSE)} :
        \E s3 \in {st_contribute(s2, "employee_investment", additional_emp_contrib, TRUE)} :
        \E s4 \in {st_assert(s3, need_to_reduce - additional_emp_contrib = 0)} :
        \E s5 \in {st_contribute(s4, "roth_ira", roth_contrib, TRUE)} :
        \E c6 \in {st_contribute(s5, "taxable", balance3, TRUE)} :
        \E s6 \in {st_open(c6, "taxable")} :
        \E harvest_amount \in {IF s6.raised # "" THEN 0
                               ELSE min2(household_ser.tax_free_gains,
                                         gains_of(s6.taxable))} :
        \E s7 \in {st_withdraw(s6, "taxable", harvest_amount, "gains")} :
        \E s8 \in {st_contribute(s7, "taxable", harvest_amount, TRUE)} :
        \E s9 \in {_close_years(s8, year)} :
        \E c \in {_can_retire(s9, household_ser.spending)} :
        \E z \in {IF c.can_retire THEN _zero_income(c.st, year) ELSE c.st} :
        \E s10 \in {IF c.can_retire THEN _roll_over_traditional(z) ELSE z} :
        \E pass \in {[Pass(year, "working", c.can_retire) EXCEPT
                         !.harvest = Harvest(s6, s8, harvest_amount),
                         !.amounts = Issued(<<
                             <<"match", match, fire>>,
                             <<"required", match_requires, s1>>,
                             <<"additional", additional_emp_contrib, s2>>,
                             <<"roth", roth_contrib, s4>>,
                             <<"taxable", balance3, s5>>,
                             <<"harvest", harvest_amount, s6>>,
                             <<"harvest_back", harvest_amount, s7>>,
                             <<"roll_over",
                               IF c.can_retire /\ z.raised = ""
                               THEN balance_of(z.employee_investment) ELSE 0,
                               z>> >>),
                         !.at = raised_at(<<
                             <<"match", s2>>, <<"additional", s3>>,
                             <<"need_to_reduce", s4>>, <<"roth", s5>>,
                             <<"taxable", s6>>, <<"harvest", s8>>,
                             <<"close", s9>>, <<"can_retire", c.st>>,
                             <<"roll_over", s10>> >>, 1)]} :
            /\ fire' = s10
            /\ loop' = IF s10.raised # ""
                       THEN [loop EXCEPT !.ran = Append(@, pass)]
                       ELSE [loop EXCEPT !.year = @ + 1,
                                         !.retired = next_retired(@, c.can_retire),
                                         !.ran = Append(@, pass),
                                         !.transitions =
                                             IF c.can_retire THEN @ + 1 ELSE @]

\* the retired-year procedure on the strategy `fire`
_do_retired_year(year) ==
    LET household_ser == household_df[year]
        spending == household_ser.spending
    IN  \E o1 \in {st_open(fire, "traditional_ira")} :
        \E roll_over_amount \in {IF o1.raised # "" THEN 0
                                 ELSE roll_over_amount_of(
                                          household_ser.tax_free_income,
                                          balance_of(o1.traditional_ira))} :
        \E s1 \in {st_withdraw(o1, "traditional_ira", roll_over_amount, "gains")} :
        \E c2 \in {st_contribute(s1, "roth_ira", roll_over_amount, TRUE)} :
        \E s2 \in {st_open(c2, "taxable")} :
        \E spending_with \in {IF s2.raised # "" THEN 0
                              ELSE min2(spending, balance_of(s2.taxable))} :
        \E s3 \in {st_withdraw(s2, "taxable", spending_with, "gains")} :
        \E s4 \in {IF spending - spending_with > 0
                   THEN st_withdraw(s3, "roth_ira", spending - spending_with, "basis")
                   ELSE s3} :
        \E o5 \in {st_open(s4, "taxable")} :
        \E taxable_amount \in
              {IF o5.raised # "" THEN 0
               ELSE min2(household_ser.tax_free_gains
                             - (roll_over_amount + spending_with),
                         balance_of(o5.taxable))} :
        \E s5 \in {st_withdraw(o5, "taxable", taxable_amount, "gains")} :
        \E s6 \in {st_contribute(s5, "taxable", taxable_amount, TRUE)} :
        \E s7 \in {_close_years(s6, year)} :
        \E pass \in {[Pass(year, "retired", FALSE) EXCEPT
                         !.harvest = Harvest(o5, s6, taxable_amount),
                         !.ladder = Ladder(o1, c2, roll_over_amount),
                         !.amounts = Issued(<<
                             <<"ladder", roll_over_amount, o1>>,
                             <<"ladder_roth", roll_over_amount, s1>>,
                             <<"spending", spending_with, s2>>,
                             <<"shortfall",
                               IF spending - spending_with > 0
                               THEN spending - spending_with ELSE 0, s3>>,
                             <<"harvest", taxable_amount, o5>>,
                             <<"harvest_back", taxable_amount, s5>> >>),
                         !.at = raised_at(<<
                             <<"ladder", c2>>, <<"spending", s3>>,
                             <<"shortfall", s4>>, <<"harvest", s6>>,
                             <<"close", s7>> >>, 1)]} :
            /\ fire' = s7
            /\ loop' = IF s7.raised # ""
                       THEN [loop EXCEPT !.ran = Append(@, pass)]
                       ELSE [loop EXCEPT !.year = @ + 1,
                                         !.retired = next_retired(@, FALSE),
                                         !.ran = Append(@, pass)]

\* TaxEvasionStrategy.__post_init__ on a household and a family income whose
\* tables are constant over the horizon; start_fire about to begin
FireInit ==
    /\ \E income \in Incomes, match \in Matches, limit \in EmployLimits :
          fire = [taxable |-> years_df(FireYears, 0, 0),
                  employee_investment |-> years_df(FireYears, 0, 0),
                  traditional_ira |-> years_df(FireYears, 0, 0),
                  roth_ira |-> years_df(FireYears, 0, 0),
                  income_df |-> [y \in FireYears |->
                                    [income |-> income, match |-> match,
                                     required |-> match,
                                     contribution_limit |-> limit]],
                  raised |-> "", goal_reached |-> FALSE]
    /\ \E spending \in Spendings, tfi \in TaxFreeIncomes, ira \in IraLimits,
          tfg \in TaxFreeGains :
          household_df = [y \in FireYears |->
                             [spending |-> spending, tax_free_income |-> tfi,
                              ira_limit |-> ira, tax_free_gains |-> tfg]]
    /\ loop = [year |-> 1, retired |-> FALSE, returned |-> FALSE,
               ran |-> << >>, transitions |-> 0]
    /\ growth_rate \in GrowthRates
    /\ df = InitDf(0, 0)
    /\ contribution_limit = NaN
    /\ kind = "Investment"
    /\ result = NoCall
    /\ before = df
    /\ employee_contrib = 0
    /\ tax_df = << >>
    /\ tax_call = [op |-> "init", amount |-> 0, mid |-> NaN, out |-> NaN,
                   raised |-> "", children_age |-> << >>, credit |-> 0,
                   std |-> 0]

Running == fire.raised = "" /\ ~loop.returned

\* one pass of the loop of start_fire with `retired` False
WorkingYear ==
    /\ Running /\ loop.year \in FireYears /\ ~loop.retired
    /\ _do_working_year(loop.year)
    /\ UNCHANGED <<household_df, inv_vars, tax_vars>>

\* one pass of the loop of start_fire with `retired` True
RetiredYear ==
    /\ Running /\ loop.year \in FireYears /\ loop.retired
    /\ _do_retired_year(loop.year)
    /\ UNCHANGED <<household_df, inv_vars, tax_vars>>

\* the loop is over: `self.goal_reached = True` and start_fire returns
Return ==
    /\ Running /\ loop.year \notin FireYears
    /\ fire' = [fire EXCEPT !.goal_reached = TRUE]
    /\ loop' = [loop EXCEPT !.returned = TRUE]
    /\ UNCHANGED <<household_df, inv_vars, tax_vars>>

FireNext == WorkingYear \/ RetiredYear \/ Return

FireSpec == FireInit /\ [][FireNext]_vars

\* ---------------------------------------------------------------------
\* The tax tables of utils.py.  A table is the rows of one year as
\* _get_tax_size sees them: `amount` is the upper bound of a bracket and
\* `tax_percent` its rate.  Money is counted in whole units; the rates and
\* the bracket sizes below are chosen so that every product and quotient
\* the functions form is a whole number.
MaxBrackets == 4

MaxTaxSteps == 24

MaxIncomeSteps == 14

MaxChildren == 2

_max_age == 18

TaxPercents == {0, 25, 50, 100}

BracketSizes == {16, 32}

\* the amounts handed to tax_to_income and to income_to_tax
TaxAmounts == {4 * k : k \in 0..MaxTaxSteps}

TaxableIncomes == {8 * k : k \in 0..MaxIncomeSteps}

\* Household: children_age, the year's standard deduction and the year's
\* allowable child tax credit
ChildrenAges == UNION {[1..n -> {_max_age, _max_age + 1}] : n \in 0..MaxChildren}

StdDeductions == {0, 24}

ChildTaxCredits == {4, 20}

RECURSIVE SumTo(_, _)
SumTo(a, k) == IF k = 0 THEN 0 ELSE a[k] + SumTo(a, k - 1)

cumsum(a) == [k \in DOMAIN a |-> SumTo(a, k)]

\* the rows of a table from the sizes and the rates of its brackets
TableOf(sizes, percents) ==
    [k \in DOMAIN sizes |-> [amount |-> SumTo(sizes, k), tax_percent |-> percents[k]]]

\* the tables: amounts strictly increasing, rates non-decreasing, and a
\* positive rate in the top bracket
TaxTables ==
    UNION {{TableOf(sizes, percents) :
               sizes \in [1..n -> BracketSizes],
               percents \in {p \in [1..n -> TaxPercents] :
                                /\ p[n] > 0
                                /\ \A k \in 1..(n - 1) : p[k] <= p[k + 1]}} :
           n \in 1..MaxBrackets}

\* _get_tax_size: the rates (kept in percent) and the size of each bracket
_get_tax_size(tdf) ==
    [tax |-> [k \in DOMAIN tdf |-> tdf[k].tax_percent],
     size |-> [k \in DOMAIN tdf |->
                  tdf[k].amount - (IF k = 1 THEN 0 ELSE tdf[k - 1].amount)]]

\* (tax * size).cumsum(), with tax = tax_percent / 100
tax_cum_of(tax, size) == cumsum([k \in DOMAIN tax |-> (tax[k] * size[k]) \div 100])

\* np.inf, written 1/0: unequal to every Num(v)
Inf == <<1, 0>>

\* _pad_bins: 0 in front, the last value replaced by inf
_pad_bins(array) ==
    <<Num(0)>> \o [k \in DOMAIN array |->
                      IF k = Len(array) THEN Inf ELSE Num(array[k])]

\* faulty variant: equal bins are counted once
digitize_distinct(amount, bins) ==
    Cardinality({Val(bins[k]) : k \in {j \in DOMAIN bins : bins[j] # Inf
                                                           /\ Val(bins[j]) <= amount}})

\* np.digitize(amount, bins) for non-decreasing bins: i with
\* bins[i-1] <= amount < bins[i], which is the number of bins <= amount
digitize(amount, bins) ==
    Cardinality({k \in DOMAIN bins : bins[k] # Inf /\ Val(bins[k]) <= amount})

\* the outcome of a conversion: a number, or the exception it raised
Out(v) == [raised |-> "", out |-> Num(v)]

Raise(exc) == [raised |-> exc, out |-> NaN]

\* tax_to_income for one year.  A division by a rate of 0 gives nan.
tax_to_income(amount, tdf) ==
    IF amount < 0 THEN Raise("AssertionError")
    ELSE LET ts == _get_tax_size(tdf)
             tax_cum == tax_cum_of(ts.tax, ts.size)
             bins == _pad_bins(tax_cum)
             idx == digitize(amount, bins)
             previous_tax == SumTo(tax_cum, idx - 1)
             previous_bracket == SumTo(ts.size, idx - 1)
             current_tax == amount - previous_tax
         IN  IF ts.tax[idx] = 0 THEN [raised |-> "", out |-> NaN]
             ELSE Out(previous_bracket + (current_tax * 100) \div ts.tax[idx])

\* income_to_tax for one year
income_to_tax(amount, tdf) ==
    IF amount < 0 THEN Raise("AssertionError")
    ELSE LET ts == _get_tax_size(tdf)
             size_cum == cumsum(ts.size)
             tax_cum == tax_cum_of(ts.tax, ts.size)
             bins == _pad_bins(size_cum)
             idx == digitize(amount, bins)
             previous_tax == SumTo(tax_cum, idx - 1)
             previous_bracket == SumTo(ts.size, idx - 1)
             current_bracket_ == amount - previous_bracket
             current_tax == (current_bracket_ * ts.tax[idx]) \div 100
         IN  Out(previous_tax + current_tax)

\* one conversion applied to the outcome of another
then_tax_to_income(r, tdf) ==
    IF r.raised # "" \/ isnull(r.out) THEN r ELSE tax_to_income(Val(r.out), tdf)

then_income_to_tax(r, tdf) ==
    IF r.raised # "" \/ isnull(r.out) THEN r ELSE income_to_tax(Val(r.out), tdf)

\* Household.get_household_modifier_df, column child_tax_credit of the
\* first year: np.stack raises ValueError on an empty list of children
child_tax_credit(children_age, allowable_tax_credit) ==
    IF Len(children_age) = 0 THEN Raise("ValueError")
    ELSE Out(Cardinality({c \in DOMAIN children_age : children_age[c] <= _max_age})
             * allowable_tax_credit)

\* Household.get_tax_free_series: tax_to_income(credits) + _std_ser
get_tax_free_series(children_age, allowable_tax_credit, std, tdf) ==
    LET credits == child_tax_credit(children_age, allowable_tax_credit)
        income == then_tax_to_income(credits, tdf)
    IN  IF income.raised # "" \/ isnull(income.out) THEN income
        ELSE Out(Val(income.out) + std)

\* Household._get_tax_free_gains: tax_to_income of a series of zeros
_get_tax_free_gains(tdf) == tax_to_income(0, tdf)

NoTaxCall ==
    [op |-> "init", amount |-> 0, mid |-> NaN, out |-> NaN, raised |-> "",
     children_age |-> << >>, credit |-> 0, std |-> 0]

TaxCall(op, amount, mid, r) ==
    [NoTaxCall EXCEPT !.op = op, !.amount = amount, !.mid = mid,
                      !.out = r.out, !.raised = r.raised]

TaxInit ==
    /\ tax_df \in TaxTables
    /\ tax_call = NoTaxCall
    /\ df = InitDf(0, 0)
    /\ growth_rate = 0
    /\ contribution_limit = NaN
    /\ kind = "Investment"
    /\ result = NoCall
    /\ before = df
    /\ employee_contrib = 0
    /\ fire = [taxable |-> << >>, employee_investment |-> << >>,
               traditional_ira |-> << >>, roth_ira |-> << >>,
               income_df |-> << >>, raised |-> "", goal_reached |-> FALSE]
    /\ household_df = << >>
    /\ loop = [year |-> 0, retired |-> FALSE, returned |-> FALSE,
               ran |-> << >>, transitions |-> 0]

\* The functions are pure and a call leaves nothing behind, so a behaviour
\* is one table and one call on it.
Fresh == tax_call.op = "init"

\* income_to_tax(pd.Series([amount]), tax_df)
IncomeToTax ==
    /\ Fresh
    /\ \E amount \in TaxableIncomes \cup {-8} :
          tax_call' = TaxCall("income_to_tax", amount, NaN,
                              income_to_tax(amount, tax_df))
    /\ UNCHANGED <<tax_df, inv_vars, fire_vars>>

\* tax_to_income(pd.Series([amount]), tax_df)
TaxToIncome ==
    /\ Fresh
    /\ \E amount \in TaxAmounts \cup {-4} :
          tax_call' = TaxCall("tax_to_income", amount, NaN,
                              tax_to_income(amount, tax_df))
    /\ UNCHANGED <<tax_df, inv_vars, fire_vars>>

\* income_to_tax(tax_to_income(pd.Series([amount]), tax_df), tax_df)
TaxRoundTrip ==
    /\ Fresh
    /\ \E amount \in TaxAmounts :
       \E mid \in {tax_to_income(amount, tax_df)} :
          tax_call' = TaxCall("tax_round_trip", amount, mid.out,
                              then_income_to_tax(mid, tax_df))
    /\ UNCHANGED <<tax_df, inv_vars, fire_vars>>

\* tax_to_income(income_to_tax(pd.Series([amount]), tax_df), tax_df)
IncomeRoundTrip ==
    /\ Fresh
    /\ \E amount \in TaxableIncomes :
       \E mid \in {income_to_tax(amount, tax_df)} :
          tax_call' = TaxCall("income_round_trip", amount, mid.out,
                              then_tax_to_income(mid, tax_df))
    /\ UNCHANGED <<tax_df, inv_vars, fire_vars>>

\* Household(children_age=...).get_tax_free_series() with tax_df as the
\* household's income-tax table
GetTaxFreeSeries ==
    /\ Fresh
    /\ \E children_age \in ChildrenAges, credit \in ChildTaxCredits,
          std \in StdDeductions :
       \E r \in {get_tax_free_series(children_age, credit, std, tax_df)} :
          tax_call' = [TaxCall("get_tax_free_series", 0, NaN, r) EXCEPT
                          !.children_age = children_age, !.credit = credit,
                          !.std = std]
    /\ UNCHANGED <<tax_df, inv_vars, fire_vars>>

\* Household._get_tax_free_gains() with tax_df as the capital-gains table
GetTaxFreeGains ==
    /\ Fresh
    /\ tax_call' = TaxCall("_get_tax_free_gains", 0, NaN, _get_tax_free_gains(tax_df))
    /\ UNCHANGED <<tax_df, inv_vars, fire_vars>>

TaxNext ==
    \/ IncomeToTax \/ TaxToIncome \/ TaxRoundTrip \/ IncomeRoundTrip
    \/ GetTaxFreeSeries \/ GetTaxFreeGains

TaxSpec == TaxInit /\ [][TaxNext]_vars

\* ---------------------------------------------------------------------
\* extend_df_to_years (utils.py) on a table with rows of several years.
\* A year of the table has no rows or the rows of one of YearTables; the
\* tables are chosen so that two of them never hold the same amount at
\* different rates, which keeps sort_values('amount') free of ties.
MaxTableYears == 3

TableYears == 1..MaxTableYears

YearTables ==
    {<< >>,
     <<[amount |-> 16, tax_percent |-> 25]>>,
     <<[amount |-> 16, tax_percent |-> 25], [amount |-> 32, tax_percent |-> 50]>>,
     <<[amount |-> 24, tax_percent |-> 25], [amount |-> 48, tax_percent |-> 50]>>}

\* rows given a `year` column
labelled(rows, year) ==
    [k \in DOMAIN rows |-> [year |-> year, amount |-> rows[k].amount,
                            tax_percent |-> rows[k].tax_percent]]

\* the csv file: the rows of each year, one year after the other
RECURSIVE concat_years(_, _)
concat_years(by_year, y) ==
    IF y > MaxTableYears THEN << >>
    ELSE labelled(by_year[y], y) \o concat_years(by_year, y + 1)

\* the index `years`: a range of consecutive years
YearIndexes ==
    {[k \in 1..(last - first + 1) |-> first + k - 1] :
        first \in TableYears, last \in TableYears} \ {<< >>}

\* df[df['year'] == year]
rows_of_year(tdf, year) ==
    LET in_year(r) == r.year = year
    IN  SelectSeq(tdf, in_year)

\* `df_years[df_years < year].max()`: nan when no year is earlier
closest_year_before(tdf, year) ==
    LET earlier == {tdf[k].year : k \in DOMAIN tdf} \cap 0..(year - 1)
    IN  IF earlier = {} THEN NaN
        ELSE Num(CHOOSE y \in earlier : \A z \in earlier : z <= y)

\* one pass of the loop of extend_df_to_years: what it appends to `out`
extend_year(tdf, year) ==
    LET year_set == {tdf[k].year : k \in DOMAIN tdf}
        own == IF year \in year_set THEN rows_of_year(tdf, year) ELSE << >>
        closest_year == closest_year_before(tdf, year)
        sub == IF isnull(closest_year) THEN << >>
               ELSE labelled(rows_of_year(tdf, Val(closest_year)), year)
    IN  own \o sub

RECURSIVE extend_from(_, _, _)
extend_from(tdf, years, i) ==
    IF i > Len(years) THEN << >>
    ELSE extend_year(tdf, years[i]) \o extend_from(tdf, years, i + 1)

extend_df_to_years(tdf, years) == extend_from(tdf, years, 1)

\* the rows of a set sorted by amount
RECURSIVE sorted_rows(_)
sorted_rows(rows) ==
    IF rows = {} THEN << >>
    ELSE LET first == CHOOSE r \in rows :
                          \A q \in rows : r.amount < q.amount
                                          \/ (r.amount = q.amount
                                              /\ r.tax_percent <= q.tax_percent)
         IN  <<first>> \o sorted_rows(rows \ {first})

\* _get_tax_size, the selection: the rows of `year`, sorted by amount,
\* duplicates dropped, as amount and tax_percent
year_rows(year, tdf) ==
    sorted_rows({[amount |-> tdf[k].amount, tax_percent |-> tdf[k].tax_percent] :
                    k \in {j \in DOMAIN tdf : tdf[j].year = year}})

NoExtendCall == [op |-> "init", years |-> << >>, year |-> 0, out |-> << >>]

ExtendInit ==
    /\ \E by_year \in [TableYears -> YearTables] : tax_df = concat_years(by_year, 1)
    /\ tax_call = NoExtendCall
    /\ df = InitDf(0, 0)
    /\ growth_rate = 0
    /\ contribution_limit = NaN
    /\ kind = "Investment"
    /\ result = NoCall
    /\ before = df
    /\ employee_contrib = 0
    /\ fire = [taxable |-> << >>, employee_investment |-> << >>,
               traditional_ira |-> << >>, roth_ira |-> << >>,
               income_df |-> << >>, raised |-> "", goal_reached |-> FALSE]
    /\ household_df = << >>
    /\ loop = [year |-> 0, retired |-> FALSE, returned |-> FALSE,
               ran |-> << >>, transitions |-> 0]

\* extend_df_to_years(tax_df, years)
ExtendDfToYears ==
    /\ Fresh
    /\ \E years \in YearIndexes :
          tax_call' = [op |-> "extend_df_to_years", years |-> years, year |-> 0,
                       out |-> extend_df_to_years(tax_df, years)]
    /\ UNCHANGED <<tax_df, inv_vars, fire_vars>>

\* the table tax_to_income and income_to_tax work with in `year`:
\* `tdf = extend_df_to_years(tax_df, ser.index)`, then _get_tax_size(year, tdf)
GetTaxSize ==
    /\ Fresh
    /\ \E years \in YearIndexes : \E i \in DOMAIN years :
       \E tdf \in {extend_df_to_years(tax_df, years)} :
          tax_call' = [op |-> "_get_tax_size", years |-> years, year |-> years[i],
                       out |-> year_rows(years[i], tdf)]
    /\ UNCHANGED <<tax_df, inv_vars, fire_vars>>

ExtendNext == ExtendDfToYears \/ GetTaxSize

ExtendSpec == ExtendInit /\ [][ExtendNext]_vars

\* ---------------------------------------------------------------- claims
\* The claims are stated on the last call: `result` holds its arguments and
\* outcome, `before` the ledger it found and `df` the ledger it left.
closed(d, y) == ~isnull(d[y].end_balance)
Opened == ~isnull(year_of(before))
OpenYear == Val(year_of(before))
WithdrawOk == result.op = "withdraw" /\ result.status = "ok"
PlainAccount == ~pretax(kind) /\ ~taxfree(kind)

\* C1: with non-negative starting balance and basis, non-negative
\* contributions and withdrawals within the funds, the basis recorded for
\* every year is >= 0.
C1_BasisNonNegative == \A y \in Years : df[y].basis >= 0

\* C2: every closed year y has end_balance = start_balance + gains +
\* contribution and gains = growth_rate * (start_balance + contribution / 2)
\* (the second equation is stated doubled, to stay in the integers).
C2_ClosedYearEquations ==
    \A y \in Years :
        closed(df, y) =>
            /\ Val(df[y].end_balance) =
                   Val(df[y].start_balance) + Val(df[y].gains) + df[y].contribution
            /\ 2 * Val(df[y].gains) =
                   growth_rate * (2 * Val(df[y].start_balance) + df[y].contribution)

C2_Witness ==
    /\ result.op = "close_year" /\ result.status = "ok"
    /\ growth_rate = 2
    /\ \E y \in Years : /\ closed(df, y)
                        /\ df[y].contribution = 1
                        /\ Val(df[y].start_balance) = 1
                        /\ Val(df[y].end_balance) = 5

\* C3: right after a successful close_year(y) with y+1 in the horizon,
\* start_balance[y+1] = end_balance[y] and basis[y+1] = basis[y]; and in
\* every later state start_balance[y+1] still equals end_balance[y].
C3_NextYearCarriesOver ==
    /\ (/\ result.op = "close_year" /\ result.status = "ok"
        /\ result.year + 1 \in Years)
          => /\ df[result.year + 1].start_balance = df[result.year].end_balance
             /\ df[result.year + 1].basis = df[result.year].basis
    /\ \A y \in Years :
          (y + 1 \in Years /\ closed(df, y))
             => df[y + 1].start_balance = df[y].end_balance

C3_Witness ==
    /\ WithdrawOk /\ result.year = 2 /\ result.amount > 0
    /\ closed(df, 1)
    /\ df[1].basis > 0
    /\ Val(df[1].end_balance) > 0

\* C4: a contribute rejected with ContributionLimitsExceeded leaves every
\* field of every year of the ledger as it was.
C4_RejectedContributeNoEffect ==
    (result.op = "contribute" /\ result.status = "ContributionLimitsExceeded")
        => df = before

C4_Witness ==
    /\ result.op = "contribute" /\ result.status = "ContributionLimitsExceeded"
    /\ result.amount > 0
    /\ before[result.year].contribution > 0

\* C5: with a contribution_limit, an employee contribution is rejected if
\* and only if the employee contributions of the open year, this one
\* included, exceed the limit (employer contributions and withdrawals of the
\* year do not count).  employee_contrib counts the accepted ones, so it
\* includes this one exactly when it was accepted.
C5_LimitCountsEmployeeOnly ==
    (/\ result.op = "contribute" /\ result.employee
     /\ Opened /\ ~isnull(contribution_limit))
        => /\ result.status = "ContributionLimitsExceeded"
                => employee_contrib + result.amount > Val(contribution_limit)
           /\ result.status = "ok"
                => employee_contrib <= Val(contribution_limit)

\* C6: an employer contribution to an open year always succeeds, adds
\* exactly amount to the open year's contribution and changes no basis; a
\* successful employee contribution adds amount to the open year's
\* contribution and to its basis.
C6_ContributeEffect ==
    (result.op = "contribute" /\ Opened) =>
        LET y == OpenYear
            a == result.amount
        IN  /\ ~result.employee =>
                  /\ result.status = "ok"
                  /\ df[y].contribution = before[y].contribution + a
                  /\ \A z \in Years : df[z].basis = before[z].basis
            /\ (result.employee /\ result.status = "ok") =>
                  /\ df[y].contribution = before[y].contribution + a
                  /\ df[y].basis = before[y].basis + a

C6_Witness ==
    /\ result.op = "contribute" /\ result.status = "ok" /\ ~result.employee
    /\ result.amount > 0
    /\ ~isnull(contribution_limit)
    /\ df[result.year].contribution > Val(contribution_limit)

C8_WithdrawFrame ==
    WithdrawOk =>
        LET y == OpenYear
        IN  /\ df[y].contribution = before[y].contribution - result.amount
            /\ Val(result.ret).amount = result.amount
            /\ \A z \in Years \ {y} : df[z] = before[z]
            /\ df[y].start_balance = before[y].start_balance
            /\ df[y].end_balance = before[y].end_balance
            /\ df[y].gains = before[y].gains

C8_Witness ==
    /\ WithdrawOk /\ result.amount > 0
    /\ before[result.year].contribution > 0
    /\ result.year = 2

\* C9: a 'basis' withdrawal of a from a plain account with basis b: if
\* a <= b the tax is 0 and the basis becomes b - a; if a > b the tax is
\* a - b and the basis becomes 0.
C9_BasisStrategy ==
    (WithdrawOk /\ result.strategy = "basis" /\ PlainAccount) =>
        LET y == OpenYear
            b == before[y].basis
            a == result.amount
            w == Val(result.ret)
        IN  /\ a <= b => (w.tax = 0 /\ df[y].basis = b - a)
            /\ a > b => (w.tax = a - b /\ df[y].basis = 0)

C9_Witness ==
    /\ WithdrawOk /\ result.strategy = "basis" /\ PlainAccount
    /\ result.amount > before[result.year].basis
    /\ before[result.year].basis > 0
    /\ Val(result.ret).tax > 0

\* C10: a 'gains' withdrawal of a from a plain account, with
\* G = start_balance + contribution - basis of the open year: if G >= a the
\* tax is a and the basis is unchanged; if G < a the tax is G and the basis
\* is lowered by a - G.
C10_GainsStrategy ==
    (WithdrawOk /\ result.strategy = "gains" /\ PlainAccount) =>
        LET y == OpenYear
            b == before[y].basis
            a == result.amount
            G == Val(before[y].start_balance) + before[y].contribution - b
            w == Val(result.ret)
        IN  /\ G >= a => (w.tax = a /\ df[y].basis = b)
            /\ G < a => (w.tax = G /\ df[y].basis = b - (a - G))

\* C11: a 'balanced' withdrawal of an amount within the funds of the open
\* year succeeds and splits the draw in proportion: with
\* gains = start_balance + contribution - basis, the reported tax is
\* amount * gains / (basis + gains) and the basis is lowered by
\* amount * basis / (basis + gains) (both stated multiplied out).
C11_BalancedSplits ==
    (/\ result.op = "withdraw" /\ result.strategy = "balanced" /\ Opened
     /\ ~insufficient_funds(before[OpenYear].contribution,
                            Val(before[OpenYear].start_balance), result.amount)
     /\ PlainAccount)
        => /\ result.status = "ok"
           /\ LET y == OpenYear
                  b == before[y].basis
                  funds == Val(before[y].start_balance) + before[y].contribution
              IN  /\ Val(result.ret).tax * funds = result.amount * (funds - b)
                  /\ (b - df[y].basis) * funds = result.amount * b

\* C12: every successful withdrawal reports tax 0 on a tax-free account
\* and the whole amount on a pre-tax account, whatever the strategy; on any
\* other account it reports the taxable portion the strategy computed.
C12_TaxByAccountType ==
    WithdrawOk =>
        LET w == Val(result.ret)
        IN  /\ taxfree(kind) => w.tax = 0
            /\ pretax(kind) => w.tax = result.amount
            /\ PlainAccount =>
                  w.tax = new_basis_of(before, result.amount, result.strategy)[2]

C12_Witness ==
    /\ WithdrawOk /\ kind = "RothIRA" /\ result.strategy = "gains"
    /\ result.amount > 0
    /\ new_basis_of(before, result.amount, result.strategy)[2] > 0
    /\ Val(result.ret).tax = 0

\* C13: the tax_type of a successful withdrawal is 'capital_gains' on a
\* Taxable account and 'income' on every other account.
C13_TaxTypeByAccount ==
    WithdrawOk =>
        Val(result.ret).tax_type =
            (IF kind = "Taxable" THEN "capital_gains" ELSE "income")

\* C14 (as stated): current_year is the earliest year with end_balance
\* unset, the first year on a new account, one year later after each
\* successful close_year() without argument, and unchanged by contribute
\* and withdraw.
C14_CurrentYearAdvances ==
    /\ \A y \in Years :
          (current_year = Num(y)) <=>
              (isnull(df[y].end_balance)
               /\ \A z \in Years : z < y => ~isnull(df[z].end_balance))
    /\ result.op = "init" => current_year = Num(1)
    /\ (result.op = "close_year" /\ result.status = "ok" /\ result.year_arg = 0)
          => current_year = Num(OpenYear + 1)
    /\ result.op \in {"contribute", "withdraw"} => current_year = year_of(before)

\* C14 (amended): as above, but close_year() advances current_year by one
\* year only while a later year remains in the horizon; once the last year
\* is closed no year is open and current_year is null.
C14_CurrentYearAdvancesInHorizon ==
    /\ \A y \in Years :
          (current_year = Num(y)) <=>
              (isnull(df[y].end_balance)
               /\ \A z \in Years : z < y => ~isnull(df[z].end_balance))
    /\ isnull(current_year) <=> \A y \in Years : ~isnull(df[y].end_balance)
    /\ result.op = "init" => current_year = Num(1)
    /\ (result.op = "close_year" /\ result.status = "ok" /\ result.year_arg = 0)
          => current_year = (IF OpenYear + 1 \in Years THEN Num(OpenYear + 1)
                             ELSE NaN)
    /\ result.op \in {"contribute", "withdraw"} => current_year = year_of(before)

C14_Witness ==
    /\ result.op = "close_year" /\ result.status = "ok" /\ result.year_arg = 0
    /\ year_of(before) = Num(1)
    /\ current_year = Num(2)

\* C15: close_year(y) for a year y whose start_balance is not yet set fails
\* with BalanceError and leaves the ledger, hence current_year, unchanged.
C15_CloseUnstartedYearRejected ==
    (/\ result.op = "close_year" /\ result.year \in Years
     /\ result.status # "KeyError"
     /\ isnull(before[result.year].start_balance))
        => /\ result.status = "BalanceError"
           /\ df = before
           /\ current_year = year_of(before)

C15_Witness ==
    /\ result.op = "close_year" /\ result.status = "BalanceError"
    /\ result.year_arg = 2
    /\ current_year = Num(1)
    /\ before[1].contribution > 0

\* C16: no call changes any field of a year that was closed when the call
\* was made, and contribute and withdraw change no year but the first open
\* one.
C16_ClosedYearsFrozen ==
    /\ \A y \in Years : closed(before, y) => df[y] = before[y]
    /\ (result.op \in {"contribute", "withdraw"} /\ Opened)
          => \A z \in Years \ {OpenYear} : df[z] = before[z]

\* C17: on an account with positive growth rate, non-negative starting
\* balance and basis, that only received non-negative contributions and
\* close_year calls, basis, start_balance and end_balance do not decrease
\* from a closed year to the next closed year.
C17_MonotoneWithoutWithdrawals ==
    growth_rate > 0 =>
        \A y \in Years :
            (y + 1 \in Years /\ closed(df, y) /\ closed(df, y + 1)) =>
                /\ df[y + 1].basis >= df[y].basis
                /\ Val(df[y + 1].start_balance) >= Val(df[y].start_balance)
                /\ Val(df[y + 1].end_balance) >= Val(df[y].end_balance)

C17_Witness ==
    /\ growth_rate > 0
    /\ closed(df, 1) /\ closed(df, 2)
    /\ df[1].basis > 0 /\ df[2].contribution > 0
    /\ Val(df[2].start_balance) > Val(df[1].start_balance)
    /\ Val(df[2].end_balance) > Val(df[1].end_balance)

\* ------------------------------------------------- claims on start_fire
\* loop.ran lists the passes of the loop made so far, the pass that raised
\* included.
NoNull(d) ==
    \A y \in DOMAIN d : ~isnull(d[y].start_balance) /\ ~isnull(d[y].end_balance)
                        /\ ~isnull(d[y].gains)

\* C18: start_fire takes the years in ascending order, and a year is run
\* as a working year exactly when no earlier year's working-year procedure
\* answered that the retirement trigger is met; every later year is run as
\* a retired year.
C18_RetirementOneWay ==
    \A i \in 1..Len(loop.ran) :
        /\ loop.ran[i].year = i
        /\ (loop.ran[i].proc = "working") <=>
               (\A j \in 1..(i - 1) : ~loop.ran[j].can_retire)
        /\ loop.ran[i].proc \in {"working", "retired"}

C18_Witness ==
    /\ loop.returned
    /\ Len(loop.ran) = NumFireYears
    /\ loop.ran[1].proc = "working" /\ ~loop.ran[1].can_retire
    /\ loop.ran[2].proc = "working" /\ loop.ran[2].can_retire
    /\ loop.ran[3].proc = "retired"

\* C19: start_fire raises nothing, and when it has returned every year of
\* the horizon is closed on each of the four accounts with no null field.
C19_TerminatesAllClosed ==
    /\ fire.raised = ""
    /\ loop.returned =>
          \A i \in 1..Len(Accounts) : NoNull(fire[Accounts[i]])

Passes == 1..Len(loop.ran)

LastPass == loop.ran[Len(loop.ran)]

\* the last pass was a working year that ran to its end and met the goal
JustTriggered ==
    /\ Len(loop.ran) > 0
    /\ LastPass.proc = "working" /\ LastPass.can_retire /\ LastPass.at = ""

\* the sum over the four accounts of column `col` (a nullable one) in year y
RECURSIVE SumOver(_, _, _)
SumOver(col, y, i) ==
    IF i > Len(Accounts) THEN 0
    ELSE Val(fire[Accounts[i]][y][col]) + SumOver(col, y, i + 1)

\* C21: no withdrawal issued by start_fire asks an account for more than
\* its start_balance + contribution, so no pass raises BalanceError.
C21_NoBalanceError ==
    \A i \in Passes : loop.ran[i].at = "" \/ fire.raised # "BalanceError"

\* C26: every working year evaluates the trigger without an error, the last
\* year of the horizon included, and the answer is True exactly when the
\* closed year's ending balances times growth_rate, summed over the four
\* accounts, exceed 1.2 times that year's spending; the strategy is retired
\* exactly when some working year answered True.
C26_TriggerEachWorkingYear ==
    /\ \A i \in Passes :
          loop.ran[i].proc = "working" =>
              /\ loop.ran[i].at # "can_retire"
              /\ loop.ran[i].at = "" =>
                    (loop.ran[i].can_retire <=>
                        goal_met(growth_rate * SumOver("end_balance", loop.ran[i].year, 1),
                                 household_df[loop.ran[i].year].spending))
    /\ fire.raised = "" =>
          (loop.retired <=> \E i \in Passes : loop.ran[i].can_retire)

\* C27: once a working year y has met the goal, the employer plan's balance
\* is 0 in every later year, right after that pass the traditional IRA holds
\* what it held plus what the employer plan held and the four balances sum
\* to what they did, and income, match and required are 0 after year y.
C27_RollOver ==
    /\ \A i \in Passes : \A y \in FireYears :
          (/\ loop.ran[i].proc = "working" /\ loop.ran[i].can_retire
           /\ loop.ran[i].at = "" /\ y > loop.ran[i].year
           /\ ~isnull(fire.employee_investment[y].start_balance)) =>
              /\ Val(fire.employee_investment[y].start_balance)
                    + fire.employee_investment[y].contribution = 0
              /\ fire.income_df[y].income = 0
              /\ fire.income_df[y].match = 0
              /\ fire.income_df[y].required = 0
    /\ JustTriggered =>
          /\ balance_of(fire.traditional_ira) =
                Val(fire.traditional_ira[loop.year].start_balance)
                    + Val(fire.employee_investment[loop.year].start_balance)
          /\ balance_of(fire.taxable) + balance_of(fire.employee_investment)
                + balance_of(fire.traditional_ira) + balance_of(fire.roth_ira)
                = SumOver("start_balance", loop.year, 1)

\* C28: no working year fails `assert need_to_reduce == 0`, whatever the
\* income, the tax-free threshold and the contribution limit.
C28_NeedToReduceZero ==
    \A i \in Passes :
        loop.ran[i].proc = "working" => loop.ran[i].at # "need_to_reduce"

\* a working year of the horizon that ran to its end
Completed(i) == loop.ran[i].proc = "working" /\ loop.ran[i].at = ""

\* C29: in every completed working year y the gross income equals what the
\* employee put into the employer plan (the year's contributions less the
\* employer's match) plus the spending plus the Roth IRA contribution plus
\* the taxable contribution, and the Roth IRA contribution is at most the
\* year's ira_limit.
C29_IncomeAllocated ==
    \A i \in Passes : \A y \in FireYears :
        (Completed(i) /\ y = loop.ran[i].year) =>
            /\ fire.income_df[y].income =
                  (fire.employee_investment[y].contribution - fire.income_df[y].match)
                  + household_df[y].spending
                  + fire.roth_ira[y].contribution
                  + fire.taxable[y].contribution
            /\ fire.roth_ira[y].contribution <= household_df[y].ira_limit

C29_Witness ==
    \E i \in Passes :
        /\ Completed(i) /\ loop.ran[i].year = 1
        /\ fire.income_df[1].income > 0 /\ household_df[1].spending > 0
        /\ fire.roth_ira[1].contribution = household_df[1].ira_limit
        /\ fire.taxable[1].contribution > 0
        /\ fire.employee_investment[1].contribution > fire.income_df[1].match

\* C30: a harvest step that ran to its end left the taxable account's
\* balance as it was and its basis no lower than it was.
C30_HarvestRealizeAndRebuy ==
    \A i \in Passes :
        loop.ran[i].harvest.done =>
            /\ loop.ran[i].harvest.balance_after = loop.ran[i].harvest.balance_before
            /\ loop.ran[i].harvest.basis_after >= loop.ran[i].harvest.basis_before

\* The progressive tax on an income, in hundredths of a unit: every bracket
\* taxes the part of the income that lies inside it at its own rate, and the
\* top bracket has no upper bound.
RECURSIVE progressive_tax100(_, _, _)
progressive_tax100(income, tdf, k) ==
    IF k > Len(tdf) THEN 0
    ELSE LET lower == IF k = 1 THEN 0 ELSE tdf[k - 1].amount
             upper == IF k = Len(tdf) \/ income < tdf[k].amount
                      THEN income ELSE tdf[k].amount
             part == IF upper > lower THEN upper - lower ELSE 0
         IN  tdf[k].tax_percent * part + progressive_tax100(income, tdf, k + 1)

\* the cumulative tax of the top bounded bracket
top_bounded_tax(tdf) ==
    IF Len(tdf) = 1 THEN 0
    ELSE progressive_tax100(tdf[Len(tdf) - 1].amount, tdf, 1) \div 100

\* the total size of the leading brackets with a rate of 0
zero_rate_size(tdf) ==
    LET zero == {k \in DOMAIN tdf : tdf[k].tax_percent = 0}
    IN  IF zero = {} THEN 0 ELSE tdf[CHOOSE k \in zero : \A j \in zero : j <= k].amount

\* the credits get_tax_free_series converted
claimed(call) ==
    Cardinality({c \in DOMAIN call.children_age : call.children_age[c] <= _max_age})
        * call.credit

\* C22: for every table and every income >= 0 income_to_tax returns the
\* progressive tax, in whichever bracket the income lies.
C22_IncomeToTaxProgressive ==
    (tax_call.op = "income_to_tax" /\ tax_call.amount >= 0) =>
        /\ tax_call.raised = "" /\ ~isnull(tax_call.out)
        /\ 100 * Val(tax_call.out) = progressive_tax100(tax_call.amount, tax_df, 1)

\* C23: income_to_tax(tax_to_income(t)) = t for every tax t from 0 to the
\* cumulative tax of the top bounded bracket, and
\* tax_to_income(income_to_tax(i)) = i for every income i >= 0.
C23_RoundTrip ==
    /\ (tax_call.op = "tax_round_trip" /\ tax_call.amount <= top_bounded_tax(tax_df)) =>
          tax_call.raised = "" /\ tax_call.out = Num(tax_call.amount)
    /\ tax_call.op = "income_round_trip" =>
          tax_call.raised = "" /\ tax_call.out = Num(tax_call.amount)

\* C24: a tax of 0 is an income of 0 and an income of 0 is a tax of 0, for
\* every table, a lowest rate of 0 included.
C24_ZeroMapsToZero ==
    (tax_call.op \in {"tax_to_income", "income_to_tax"} /\ tax_call.amount = 0) =>
        tax_call.raised = "" /\ tax_call.out = Num(0)

\* C24 (amended): an income of 0 is a tax of 0 for every table; a tax of 0 is
\* the income that fills the brackets with a rate of 0, which is 0 exactly
\* when the lowest rate is positive.
C24_ZeroMapsToZeroRateSize ==
    /\ (tax_call.op = "income_to_tax" /\ tax_call.amount = 0) =>
          tax_call.raised = "" /\ tax_call.out = Num(0)
    /\ (tax_call.op = "tax_to_income" /\ tax_call.amount = 0) =>
          tax_call.raised = "" /\ tax_call.out = Num(zero_rate_size(tax_df))

C24_Witness ==
    /\ tax_call.op = "tax_to_income" /\ tax_call.amount = 0
    /\ Len(tax_df) >= 3 /\ tax_df[2].tax_percent = 0
    /\ tax_call.out = Num(tax_df[2].amount)

\* C25: get_tax_free_series answers for every household, with the standard
\* deduction plus the income on which the progressive tax is the household's
\* claimable child tax credit, and never with less than the standard
\* deduction.
C25_TaxFreeThreshold ==
    tax_call.op = "get_tax_free_series" =>
        /\ tax_call.raised = "" /\ ~isnull(tax_call.out)
        /\ Val(tax_call.out) >= tax_call.std
        /\ progressive_tax100(Val(tax_call.out) - tax_call.std, tax_df, 1)
              = 100 * claimed(tax_call)

\* C31: in every retired year whose ladder step ran, the amount moved is
\* min(tax_free_income, traditional IRA balance); the traditional IRA's
\* balance falls by it and is not negative afterwards, and the Roth IRA's
\* balance rises by it.
C31_RothLadder ==
    \A i \in Passes :
        (loop.ran[i].proc = "retired" /\ loop.ran[i].ladder.done) =>
            LET l == loop.ran[i].ladder
            IN  /\ l.amount = min2(household_df[loop.ran[i].year].tax_free_income,
                                   l.traditional_before)
                /\ l.traditional_after = l.traditional_before - l.amount
                /\ l.traditional_after >= 0
                /\ l.roth_after = l.roth_before + l.amount

C31_Witness ==
    \E i \in Passes :
        /\ loop.ran[i].proc = "retired" /\ loop.ran[i].ladder.done
        /\ loop.ran[i].ladder.amount > 0
        /\ loop.ran[i].ladder.traditional_after > 0

\* C32: no amount start_fire hands to contribute or withdraw is negative.
C32_AmountsNonNegative ==
    \A i \in Passes : \A a \in loop.ran[i].amounts : a[2] >= 0

\* C33: on an account created with 0 <= starting_basis <= starting_balance
\* the basis of the open year never exceeds start_balance + contribution.
C33_BasisWithinBalance ==
    ~isnull(current_year) => df[Val(current_year)].basis <= balance

\* C34: the balance of the open year and the end_balance of every closed
\* year are >= 0.
C34_BalancesNonNegative ==
    /\ ~isnull(current_year) => balance >= 0
    /\ \A y \in Years : closed(df, y) => Val(df[y].end_balance) >= 0

C34_Witness ==
    /\ result.op = "withdraw" /\ result.status = "BalanceError"
    /\ ~isnull(current_year) /\ Val(current_year) > 1
    /\ df[Val(current_year)].contribution < 0
    /\ Val(df[1].end_balance) > 0

\* the rows of the most recent year at or before `year` that has data,
\* relabelled to `year`
source_rows(tdf, year) ==
    LET at_or_before == {tdf[k].year : k \in DOMAIN tdf} \cap 0..year
    IN  IF at_or_before = {} THEN << >>
        ELSE labelled(rows_of_year(tdf, CHOOSE y \in at_or_before :
                                            \A z \in at_or_before : z <= y), year)

\* C35: extend_df_to_years gives every requested year exactly the rows of
\* the most recent year at or before it that has data, relabelled, and the
\* brackets _get_tax_size selects for a year are those of that one year.
C35_ExtendSingleSourceYear ==
    /\ tax_call.op = "extend_df_to_years" =>
          \A i \in DOMAIN tax_call.years :
              rows_of_year(tax_call.out, tax_call.years[i])
                  = source_rows(tax_df, tax_call.years[i])
    /\ tax_call.op = "_get_tax_size" =>
          tax_call.out = year_rows(tax_call.year, source_rows(tax_df, tax_call.year))

====
